---- MODULE Spec2Model ----
(***************************************************************************)
(* Model of snowflake-api/examples/run_sql.rs: one invocation of main().   *)
(* The program counter pc follows the statements of main; the library      *)
(* calls (session constructors, exec*, the chunk stream, the decoders,     *)
(* pretty_format_batches) are steps whose fallible outcome is chosen by    *)
(* the environment.                                                        *)
(***************************************************************************)
EXTENDS Integers, Sequences, FiniteSets, TLC

\* Longest response body the warehouse sends, in bytes.
MaxLen == 3
\* Largest number of chunks one response body is delivered in.
MaxChunks == 3

\* Byte values of the model; the first byte of a body is the result-kind tag.
Byte == 0 .. 3

Outputs == {"Arrow", "Json", "Query"}

RECURSIVE SeqsUpTo(_)
SeqsUpTo(n) ==
    IF n = 0 THEN {<<>>}
    ELSE LET S == SeqsUpTo(n - 1)
         IN  S \cup {Append(s, b) : s \in {t \in S : Len(t) = n - 1}, b \in Byte}

Bodies == SeqsUpTo(MaxLen)

\* Option::None / a value not yet bound.
None == [tag |-> "None", kind |-> "none", data |-> <<>>]

VARIABLES
    private_key,   \* args.private_key is Some
    password,      \* args.password is Some
    stream,        \* args.stream
    output,        \* args.output
    body,          \* the response body the warehouse sends for args.sql
    pc,            \* position in main
    reason,        \* the error main ended with ("" while none)
    api,           \* the session: "none", "certificate" or "password"
    remaining,     \* bytes of body the chunk stream has not delivered yet
    exhausted,     \* bytes_stream.next() has returned None
    chunks,        \* the vector chunks
    bytes,         \* the vector bytes handed to serde_json::from_slice
    resp,          \* the parsed ExecResponse
    raw,           \* raw_query_result
    res,           \* batches / res: the QueryResult
    stdout,        \* what println! has written
    keyReads,      \* calls of fs::read_to_string
    ctorCalls,     \* calls of a session constructor
    execCalls,     \* calls of exec_raw / exec / exec_json / exec_response
    chunkReads,    \* calls of bytes_stream.next()
    streamErrors,  \* chunk reads that returned Some(Err)
    parseCalls,    \* calls of serde_json::from_slice
    decodeCalls    \* calls of parse_arrow_raw_response / deserialize_arrow

args == <<private_key, password, stream, output, body>>
locals == <<api, remaining, exhausted, chunks, bytes, resp, raw, res>>
hist == <<keyReads, ctorCalls, execCalls, chunkReads, streamErrors,
          parseCalls, decodeCalls>>
vars == <<args, pc, reason, locals, stdout, hist>>

----------------------------------------------------------------------------
(* Library values.                                                         *)

\* serde_json::from_slice::<ExecResponse>: a body is a response record when
\* it starts with a result-kind tag; the rest is the result data.
ParseRecord(b) ==
    IF Len(b) >= 1 /\ b[1] \in {1, 2, 3}
    THEN [tag |-> "ExecResponse",
          kind |-> CASE b[1] = 1 -> "columnar"
                     [] b[1] = 2 -> "textual"
                     [] OTHER    -> "empty",
          data |-> IF b[1] = 3 THEN <<>> ELSE Tail(b)]
    ELSE [tag |-> "Err", kind |-> "none", data |-> <<>>]

\* SnowflakeApi::parse_arrow_raw_response: record -> RawQueryResult.
ParseArrowRawResponse(r) ==
    [tag |-> CASE r.kind = "columnar" -> "Bytes"
               [] r.kind = "textual"  -> "Json"
               [] OTHER               -> "Empty",
     kind |-> r.kind, data |-> r.data]

\* RawQueryResult::deserialize_arrow: RawQueryResult -> QueryResult.
DeserializeArrow(q) ==
    [tag |-> CASE q.tag = "Bytes" -> "Arrow"
               [] q.tag = "Json"  -> "Json"
               [] OTHER           -> "Empty",
     kind |-> q.kind, data |-> q.data]

\* The QueryResult the session's buffered exec returns for a body.
TypedResult(b) == DeserializeArrow(ParseArrowRawResponse(ParseRecord(b)))

----------------------------------------------------------------------------
(* Rendering.                                                              *)

\* println!("{}", pretty_format_batches(&a).unwrap())
Table(a) == [fmt |-> "table", kind |-> a.kind, data |-> a.data]
\* println!("{j}") / println!("{res}")
Document(j) == [fmt |-> "json", kind |-> j.kind, data |-> j.data]
\* println!("Query finished successfully")
Notice == [fmt |-> "notice", kind |-> "empty", data |-> <<>>]
\* println!("{:?}", res)
Dump(r) == [fmt |-> "debug", kind |-> r.kind, data |-> r.data]

\* The match on res of the buffered Arrow arm.
RenderResult(r) ==
    CASE r.tag = "Arrow" -> Table(r)
      [] r.tag = "Json"  -> Document(r)
      [] OTHER           -> Notice

\* chunks.into_iter().flatten().collect::<Vec<u8>>()
RECURSIVE FlattenReversed(_)
FlattenReversed(cs) ==
    IF cs = <<>> THEN <<>> ELSE FlattenReversed(Tail(cs)) \o Head(cs)

RECURSIVE Flatten(_)
Flatten(cs) ==
    IF cs = <<>> THEN <<>> ELSE Head(cs) \o Flatten(Tail(cs))

----------------------------------------------------------------------------
Init ==
    /\ private_key \in BOOLEAN
    /\ password \in BOOLEAN
    /\ stream \in BOOLEAN
    /\ output \in Outputs
    /\ body \in Bodies
    /\ pc = "start"
    /\ reason = ""
    /\ api = "none"
    /\ remaining = body
    /\ exhausted = FALSE
    /\ chunks = <<>>
    /\ bytes = <<>>
    /\ resp = None
    /\ raw = None
    /\ res = None
    /\ stdout = <<>>
    /\ keyReads = 0
    /\ ctorCalls = 0
    /\ execCalls = 0
    /\ chunkReads = 0
    /\ streamErrors = 0
    /\ parseCalls = 0
    /\ decodeCalls = 0

\* main returns Err(e) or panics.
Fail(why) ==
    /\ pc' = "failed"
    /\ reason' = why

Goto(l) ==
    /\ pc' = l
    /\ reason' = reason

----------------------------------------------------------------------------
(* Session construction, lines 74-101.                                     *)

AuthSelectFirstMatch ==
    /\ pc = "start"
    /\ IF private_key THEN Goto("read_key")
       ELSE IF password THEN Goto("password_auth")
       ELSE Fail("ConfigurationError")
    /\ UNCHANGED <<args, locals, stdout, hist>>

\* match (&args.private_key, &args.password)
AuthSelect ==
    /\ pc = "start"
    /\ IF private_key /\ ~password THEN Goto("read_key")
       ELSE IF ~private_key /\ password THEN Goto("password_auth")
       ELSE Fail("ConfigurationError")
    /\ UNCHANGED <<args, locals, stdout, hist>>

\* let pem = fs::read_to_string(pkey)?
ReadKey ==
    /\ pc = "read_key"
    /\ keyReads' = keyReads + 1
    /\ \E ok \in BOOLEAN : IF ok THEN Goto("cert_auth") ELSE Fail("IoError")
    /\ UNCHANGED <<args, locals, stdout, ctorCalls, execCalls, chunkReads,
                   streamErrors, parseCalls, decodeCalls>>

\* SnowflakeApi::with_certificate_auth(...)?
CertificateAuth ==
    /\ pc = "cert_auth"
    /\ ctorCalls' = ctorCalls + 1
    /\ \E ok \in BOOLEAN :
         IF ok THEN Goto("with_host") /\ api' = "certificate"
         ELSE Fail("AuthenticationError") /\ api' = api
    /\ UNCHANGED <<args, remaining, exhausted, chunks, bytes, resp, raw, res,
                   stdout, keyReads, execCalls, chunkReads, streamErrors,
                   parseCalls, decodeCalls>>

\* SnowflakeApi::with_password_auth(...)?
PasswordAuth ==
    /\ pc = "password_auth"
    /\ ctorCalls' = ctorCalls + 1
    /\ \E ok \in BOOLEAN :
         IF ok THEN Goto("with_host") /\ api' = "password"
         ELSE Fail("AuthenticationError") /\ api' = api
    /\ UNCHANGED <<args, remaining, exhausted, chunks, bytes, resp, raw, res,
                   stdout, keyReads, execCalls, chunkReads, streamErrors,
                   parseCalls, decodeCalls>>

\* .with_host(args.host), then the branch on args.stream and args.output
WithHost ==
    /\ pc = "with_host"
    /\ Goto(IF stream THEN "exec_raw"
            ELSE CASE output = "Arrow" -> "exec"
                   [] output = "Json"  -> "exec_json"
                   [] OTHER            -> "exec_response")
    /\ UNCHANGED <<args, locals, stdout, hist>>

----------------------------------------------------------------------------
(* The streaming path, lines 103-120.                                      *)

\* let resp = api.exec_raw(&args.sql, true).await?;
\* if let RawQueryResult::Stream(mut bytes_stream) = resp { ... }
ExecRaw ==
    /\ pc = "exec_raw"
    /\ execCalls' = execCalls + 1
    /\ \E r \in {"Err", "Stream", "Other"} :
         CASE r = "Err"    -> Fail("ExecError")
           [] r = "Stream" -> Goto("next_chunk")
           [] OTHER        -> Goto("done")
    /\ UNCHANGED <<args, locals, stdout, keyReads, ctorCalls, chunkReads,
                   streamErrors, parseCalls, decodeCalls>>

NextChunkOkStopEarly ==
    /\ pc = "next_chunk"
    /\ Len(chunks) < MaxChunks
    /\ chunkReads' = chunkReads + 1
    /\ \E k \in 0 .. Len(remaining) :
         /\ Len(chunks) = MaxChunks - 1 => k = Len(remaining)
         /\ chunks' = Append(chunks, SubSeq(remaining, 1, k))
         /\ remaining' = SubSeq(remaining, k + 1, Len(remaining))
    /\ Goto("collect")
    /\ UNCHANGED <<args, api, exhausted, bytes, resp, raw, res, stdout,
                   keyReads, ctorCalls, execCalls, streamErrors, parseCalls,
                   decodeCalls>>

\* while let Some(bytes) = bytes_stream.next().await { chunks.push(bytes?) }
\* with next() = Some(Ok(bytes)): the stream delivers the next bytes of body.
NextChunkOk ==
    /\ pc = "next_chunk"
    /\ Len(chunks) < MaxChunks
    /\ chunkReads' = chunkReads + 1
    /\ \E k \in 0 .. Len(remaining) :
         /\ Len(chunks) = MaxChunks - 1 => k = Len(remaining)
         /\ chunks' = Append(chunks, SubSeq(remaining, 1, k))
         /\ remaining' = SubSeq(remaining, k + 1, Len(remaining))
    /\ Goto("next_chunk")
    /\ UNCHANGED <<args, api, exhausted, bytes, resp, raw, res, stdout,
                   keyReads, ctorCalls, execCalls, streamErrors, parseCalls,
                   decodeCalls>>

NextChunkErrSkipped ==
    /\ pc = "next_chunk"
    /\ streamErrors < MaxChunks
    /\ chunkReads' = chunkReads + 1
    /\ streamErrors' = streamErrors + 1
    /\ Goto("next_chunk")
    /\ UNCHANGED <<args, locals, stdout, keyReads, ctorCalls, execCalls,
                   parseCalls, decodeCalls>>

\* next() = Some(Err(e)): bytes? returns the error from main.
NextChunkErr ==
    /\ pc = "next_chunk"
    /\ chunkReads' = chunkReads + 1
    /\ streamErrors' = streamErrors + 1
    /\ Fail("StreamError")
    /\ UNCHANGED <<args, locals, stdout, keyReads, ctorCalls, execCalls,
                   parseCalls, decodeCalls>>

\* next() = None: the loop ends.
NextChunkNone ==
    /\ pc = "next_chunk"
    /\ remaining = <<>>
    /\ chunkReads' = chunkReads + 1
    /\ exhausted' = TRUE
    /\ Goto("collect")
    /\ UNCHANGED <<args, api, remaining, chunks, bytes, resp, raw, res, stdout,
                   keyReads, ctorCalls, execCalls, streamErrors, parseCalls,
                   decodeCalls>>

\* let bytes = chunks.into_iter().flatten().collect::<Vec<u8>>();
Collect ==
    /\ pc = "collect"
    /\ bytes' = Flatten(chunks)
    /\ Goto("parse")
    /\ UNCHANGED <<args, api, remaining, exhausted, chunks, resp, raw, res,
                   stdout, hist>>

\* let resp = serde_json::from_slice::<ExecResponse>(&bytes).unwrap();
ParseResponse ==
    /\ pc = "parse"
    /\ parseCalls' = parseCalls + 1
    /\ IF ParseRecord(bytes).tag = "Err"
       THEN Fail("PayloadParseError") /\ resp' = resp
       ELSE Goto("parse_arrow") /\ resp' = ParseRecord(bytes)
    /\ UNCHANGED <<args, api, remaining, exhausted, chunks, bytes, raw, res,
                   stdout, keyReads, ctorCalls, execCalls, chunkReads,
                   streamErrors, decodeCalls>>

\* let raw_query_result = api.parse_arrow_raw_response(resp).await.unwrap();
ParseArrowRaw ==
    /\ pc = "parse_arrow"
    /\ decodeCalls' = decodeCalls + 1
    /\ \E ok \in BOOLEAN :
         IF ok THEN Goto("deserialize") /\ raw' = ParseArrowRawResponse(resp)
         ELSE Fail("DecodeError") /\ raw' = raw
    /\ UNCHANGED <<args, api, remaining, exhausted, chunks, bytes, resp, res,
                   stdout, keyReads, ctorCalls, execCalls, chunkReads,
                   streamErrors, parseCalls>>

\* let batches = raw_query_result.deserialize_arrow().unwrap();
Deserialize ==
    /\ pc = "deserialize"
    /\ decodeCalls' = decodeCalls + 1
    /\ \E ok \in BOOLEAN :
         IF ok THEN Goto("print_batches") /\ res' = DeserializeArrow(raw)
         ELSE Fail("DecodeError") /\ res' = res
    /\ UNCHANGED <<args, api, remaining, exhausted, chunks, bytes, resp, raw,
                   stdout, keyReads, ctorCalls, execCalls, chunkReads,
                   streamErrors, parseCalls>>

\* if let QueryResult::Arrow(a) = batches {
\*     println!("{}", pretty_format_batches(&a).unwrap()); }
PrintBatches ==
    /\ pc = "print_batches"
    /\ IF res.tag = "Arrow"
       THEN \E ok \in BOOLEAN :
              IF ok THEN Goto("done") /\ stdout' = Append(stdout, Table(res))
              ELSE Fail("RenderError") /\ stdout' = stdout
       ELSE Goto("done") /\ stdout' = stdout
    /\ UNCHANGED <<args, locals, hist>>

----------------------------------------------------------------------------
(* The buffered path, lines 121-146.                                       *)

\* let res = api.exec(&args.sql).await?;
Exec ==
    /\ pc = "exec"
    /\ execCalls' = execCalls + 1
    /\ \E ok \in BOOLEAN :
         IF ok /\ ParseRecord(body).tag # "Err"
         THEN Goto("print_res") /\ res' = TypedResult(body)
         ELSE Fail("ExecError") /\ res' = res
    /\ UNCHANGED <<args, api, remaining, exhausted, chunks, bytes, resp, raw,
                   stdout, keyReads, ctorCalls, chunkReads, streamErrors,
                   parseCalls, decodeCalls>>

PrintResPartial ==
    /\ pc = "print_res"
    /\ IF res.tag = "Arrow"
       THEN \E ok \in BOOLEAN :
              IF ok THEN Goto("done") /\ stdout' = Append(stdout, Table(res))
              ELSE Fail("RenderError") /\ stdout' = Append(stdout, Table(None))
       ELSE Goto("done") /\ stdout' = Append(stdout, RenderResult(res))
    /\ UNCHANGED <<args, locals, hist>>

\* match res { Arrow(a) => println!(pretty_format_batches(&a).unwrap()),
\*             Json(j) => println!("{j}"), Empty => println!(notice) }
PrintRes ==
    /\ pc = "print_res"
    /\ IF res.tag = "Arrow"
       THEN \E ok \in BOOLEAN :
              IF ok THEN Goto("done") /\ stdout' = Append(stdout, Table(res))
              ELSE Fail("RenderError") /\ stdout' = stdout
       ELSE Goto("done") /\ stdout' = Append(stdout, RenderResult(res))
    /\ UNCHANGED <<args, locals, hist>>

\* let res = api.exec_json(&args.sql).await?;
ExecJson ==
    /\ pc = "exec_json"
    /\ execCalls' = execCalls + 1
    /\ \E ok \in BOOLEAN :
         IF ok /\ ParseRecord(body).tag # "Err"
         THEN Goto("print_json") /\ res' = ParseRecord(body)
         ELSE Fail("ExecError") /\ res' = res
    /\ UNCHANGED <<args, api, remaining, exhausted, chunks, bytes, resp, raw,
                   stdout, keyReads, ctorCalls, chunkReads, streamErrors,
                   parseCalls, decodeCalls>>

\* println!("{res}");
PrintJson ==
    /\ pc = "print_json"
    /\ stdout' = Append(stdout, Document(res))
    /\ Goto("done")
    /\ UNCHANGED <<args, locals, hist>>

\* let res = api.exec_response(&args.sql).await?;
ExecResponse ==
    /\ pc = "exec_response"
    /\ execCalls' = execCalls + 1
    /\ \E ok \in BOOLEAN :
         IF ok /\ ParseRecord(body).tag # "Err"
         THEN Goto("print_response") /\ res' = ParseRecord(body)
         ELSE Fail("ExecError") /\ res' = res
    /\ UNCHANGED <<args, api, remaining, exhausted, chunks, bytes, resp, raw,
                   stdout, keyReads, ctorCalls, chunkReads, streamErrors,
                   parseCalls, decodeCalls>>

\* println!("{:?}", res);
PrintResponse ==
    /\ pc = "print_response"
    /\ stdout' = Append(stdout, Dump(res))
    /\ Goto("done")
    /\ UNCHANGED <<args, locals, hist>>

----------------------------------------------------------------------------
Next ==
    \/ AuthSelect
    \/ ReadKey
    \/ CertificateAuth
    \/ PasswordAuth
    \/ WithHost
    \/ ExecRaw
    \/ NextChunkOk
    \/ NextChunkErr
    \/ NextChunkNone
    \/ Collect
    \/ ParseResponse
    \/ ParseArrowRaw
    \/ Deserialize
    \/ PrintBatches
    \/ Exec
    \/ PrintRes
    \/ ExecJson
    \/ PrintJson
    \/ ExecResponse
    \/ PrintResponse

Spec == Init /\ [][Next]_vars

\* main is one tokio task that runs until it returns: every enabled step of
\* it is eventually taken.
FairSpec == Spec /\ WF_vars(Next)

----------------------------------------------------------------------------
(* The stages of the orchestrator's state machine, read off pc.            *)

\* The stage main is in.  "Exited" is main returning Ok(()) without having
\* printed anything.
Stage ==
    CASE pc \in {"start", "read_key", "cert_auth", "password_auth"} -> "Idle"
      [] pc = "with_host" -> "Authenticated"
      [] pc \in {"exec_raw", "exec", "exec_json", "exec_response",
                 "print_res", "print_json", "print_response"} -> "Executing"
      [] pc \in {"next_chunk", "collect", "parse", "parse_arrow",
                 "deserialize"} -> "Assembling"
      [] pc = "print_batches" -> "Decoded"
      [] pc = "done" -> IF stdout # <<>> THEN "Rendered" ELSE "Exited"
      [] OTHER -> "Failed"

Rank(st) ==
    CASE st = "Idle" -> 0
      [] st = "Authenticated" -> 1
      [] st = "Executing" -> 2
      [] st = "Assembling" -> 3
      [] st = "Decoded" -> 4
      [] st = "Rendered" -> 5
      [] st = "Failed" -> 6
      [] OTHER -> 7

\* What the buffered path (stream unset) prints when it succeeds on body.
BufferedOutput ==
    CASE output = "Arrow" -> <<RenderResult(TypedResult(body))>>
      [] output = "Json"  -> <<Document(ParseRecord(body))>>
      [] OTHER            -> <<Dump(ParseRecord(body))>>

----------------------------------------------------------------------------
(* Claims.                                                                 *)

\* C1: a successful streaming invocation whose response arrived as a fully
\* drained chunk stream has printed what the successful buffered invocation
\* prints for the same response and output mode.
C1_StreamingEquivalence ==
    (stream /\ exhausted /\ pc = "done") => stdout = BufferedOutput

\* C2: a session exists only when exactly one credential was supplied; with
\* neither or both, main fails at the match with no key-file read, no
\* session constructor call and no statement execution, and no session
\* exists in any state.
C2_ExactlyOneCredential ==
    /\ api # "none" => private_key # password
    /\ private_key = password =>
         /\ pc \in {"start", "failed"}
         /\ pc = "failed" => reason = "ConfigurationError"
         /\ api = "none"
         /\ keyReads = 0 /\ ctorCalls = 0 /\ execCalls = 0 /\ chunkReads = 0

C2_Witness ==
    private_key /\ password /\ pc = "failed" /\ reason = "ConfigurationError"

\* C3: the payload handed to the response parser is the response body,
\* however the stream split it into chunks, and the parsed record is the
\* parse of the body.
C3_ChunkBoundaryInvariance ==
    /\ pc = "parse" => bytes = body
    /\ parseCalls > 0 /\ pc # "failed" => resp = ParseRecord(body)

C3_Witness ==
    /\ pc = "parse"
    /\ Len(chunks) >= 2
    /\ chunks[1] # <<>> /\ chunks[2] # <<>> /\ chunks[1] # chunks[2]

\* C4: once a chunk read has failed, main is in the failed state with a
\* stream error; that read was the last one (no later chunk requested, no
\* retry) and the chunks received before it were never flattened, parsed,
\* decoded or printed.
C4_ChunkFailureAborts ==
    streamErrors > 0 =>
        /\ pc = "failed" /\ reason = "StreamError"
        /\ streamErrors = 1
        /\ chunkReads = Len(chunks) + 1
        /\ bytes = <<>> /\ resp = None /\ raw = None /\ res = None
        /\ parseCalls = 0 /\ decodeCalls = 0
        /\ stdout = <<>>

C4_Witness ==
    streamErrors = 1 /\ Len(chunks) >= 1 /\ chunks[1] # <<>>

\* C5: an invocation that failed has printed nothing; output exists only
\* in the state main reaches after its last fallible step.
C5_NoOutputOnFailure ==
    /\ pc = "failed" => stdout = <<>>
    /\ stdout # <<>> => pc = "done"

C5_Witness ==
    pc = "failed" /\ reason = "RenderError" /\ res.tag = "Arrow"

\* C6: with output mode Arrow, an invocation whose decoded result is the
\* empty result ends having printed the fixed success notice.
C6_EmptyNotice ==
    (output = "Arrow" /\ res.tag = "Empty" /\ pc = "done")
        => stdout = <<Notice>>

\* C7: with output mode Query the decoder is never invoked and a successful
\* invocation has printed the dump of the response record.
C7_RawProtocolBypass ==
    output = "Query" =>
        /\ decodeCalls = 0
        /\ pc = "done" => stdout = <<Dump(ParseRecord(body))>>

\* C8: every invocation eventually stays in Rendered or Failed, its stage
\* never moves backwards, and it executes at most one statement.
C8_SingleShotTermination ==
    /\ <>[](Stage \in {"Rendered", "Failed"})
    /\ [][Rank(Stage') >= Rank(Stage)]_vars
    /\ [](execCalls <= 1)

\* C9: an invocation that ended with success status has printed exactly one
\* rendered artifact.
C9_SuccessIsRendered ==
    pc = "done" => Len(stdout) = 1

\* C10: with stream set, the payload is collected and parsed only after the
\* stream is exhausted, the decoder runs only on a parsed record, and
\* output is printed only after both decode steps succeeded; with stream
\* unset no chunk is read and nothing is collected or parsed.
C10_StreamingStepOrder ==
    /\ stream =>
         /\ pc \in {"collect", "parse"} \/ parseCalls > 0 => exhausted
         /\ decodeCalls > 0 => parseCalls = 1 /\ resp.tag = "ExecResponse"
         /\ stdout # <<>> => decodeCalls = 2 /\ res = DeserializeArrow(raw)
    /\ ~stream =>
         /\ chunkReads = 0 /\ chunks = <<>> /\ ~exhausted
         /\ bytes = <<>> /\ parseCalls = 0 /\ resp = None

C10_Witness ==
    stream /\ pc = "done" /\ stdout # <<>> /\ Len(chunks) >= 2

====
